---------------------------- MODULE Spec2Model ----------------------------
(***************************************************************************)
(* A model of yaralyzer's scan session (yaralyzer/yaralyzer.py) and of its *)
(* rich-text renderer of YARA results (yaralyzer/yara/yara_match.py).      *)
(*                                                                         *)
(*   Spec          one session: rules.match() driving _yara_callback, then *)
(*                 the display loop of yaralyze() and _print_non_matches() *)
(*   SpecConstruct the constructors __init__, for_rules_files,             *)
(*                 for_rules_dir and for_patterns                          *)
(*   SpecRender    _rich_yara_match on bounded nested values               *)
(*   SpecClassify  _yara_string on bounded strings                         *)
(*                                                                         *)
(* Strings are sequences of one-character strings, so that prefixes,       *)
(* lengths and orderings are computed rather than assumed.  Rule names are *)
(* sequences of code points, ordered as Python orders str.                 *)
(***************************************************************************)
EXTENDS Integers, Sequences, FiniteSets, TLC

VARIABLES
    pc,            \* position of yaralyze(): ready, scanning, printing, done
    rules,         \* self.rules: the names of the rules of the compiled ruleset
    bytes_label,   \* self.bytes_label
    matches,       \* self.matches
    non_matches,   \* self.non_matches
    pending,       \* matcher: rules it has not yet reported to the callback
    cb_ret,        \* matcher: what the last callback invocation returned
    delivered,     \* history: the outcomes handed to _yara_callback, in order
    idx,           \* yaralyze(): position of the for loop over self.matches
    output,        \* what has reached the display layer and the decoder, in order
    call,          \* SpecConstruct: the constructor call made
    outcome,       \* SpecConstruct: what the constructor call did
    element,       \* SpecRender: the value handed to _rich_yara_match
    depth,         \* SpecRender: its depth argument
    width,         \* SpecRender: what console_width() returns
    rendered,      \* SpecRender: the Text returned, as a sequence of styled nodes
    string_,       \* SpecClassify: the string handed to _yara_string
    styled         \* SpecClassify: the Text returned

sessionVars == <<pc, rules, bytes_label, matches, non_matches, pending, cb_ret,
                 delivered, idx, output>>
constructVars == <<call, outcome>>
renderVars == <<element, depth, width, rendered>>
classifyVars == <<string_, styled>>
vars == <<sessionVars, constructVars, renderVars, classifyVars>>

(***************************************************************************)
(* Bounds of the model.                                                    *)
(***************************************************************************)
MaxRules == 3        \* rules in one compiled ruleset
MaxStrings == 2      \* matched strings carried by one outcome

None == "None"

(***************************************************************************)
(* Generic helpers on sequences.                                           *)
(***************************************************************************)
RECURSIVE Flatten(_)
Flatten(ss) == IF ss = <<>> THEN <<>> ELSE Head(ss) \o Flatten(Tail(ss))

RECURSIVE SumSeq(_)
SumSeq(ns) == IF ns = <<>> THEN 0 ELSE Head(ns) + SumSeq(Tail(ns))

Range(s) == {s[i] : i \in DOMAIN s}

\* Python's str.join / rich's Text.join: the items with sep between them.
RECURSIVE Join(_, _)
Join(sep, items) ==
    IF items = <<>> THEN <<>>
    ELSE IF Len(items) = 1 THEN items[1]
    ELSE items[1] \o sep \o Join(sep, Tail(items))

(***************************************************************************)
(* The session: yaralyzer.py                                               *)
(***************************************************************************)

\* The rule names the compiled rulesets draw from: "B", "a", "ab", "b", "ba".
RuleIds == {<<66>>, <<97>>, <<97, 98>>, <<98>>, <<98, 97>>}

Labels == {"dump.bin"}

CALLBACK_CONTINUE == "CALLBACK_CONTINUE"
CALLBACK_ABORT == "CALLBACK_ABORT"

\* Python's str ordering: by code point, a proper prefix first.
RECURSIVE StrLess(_, _)
StrLess(a, b) ==
    IF b = <<>> THEN FALSE
    ELSE IF a = <<>> THEN TRUE
    ELSE IF Head(a) # Head(b) THEN Head(a) < Head(b)
    ELSE StrLess(Tail(a), Tail(b))

\* sorted(..., key=str): a stable sort; here by insertion from the left.
RECURSIVE InsertSorted(_, _)
InsertSorted(s, x) ==
    IF s = <<>> THEN <<x>>
    ELSE IF StrLess(x, Head(s)) THEN <<x>> \o s
    ELSE <<Head(s)>> \o InsertSorted(Tail(s), x)

RECURSIVE SortedByStr(_)
SortedByStr(s) ==
    IF s = <<>> THEN <<>>
    ELSE InsertSorted(SortedByStr(SubSeq(s, 1, Len(s) - 1)), s[Len(s)])

Event(kind, rule, ids, n) == [kind |-> kind, rule |-> rule, ids |-> ids, n |-> n]

\* YaraMatch(data, self._panel_text()): the outcome and the session's label.
YaraMatch(data, label) == [match |-> data, rule_name |-> data.rule, label |-> label]

\* _yara_callback, its effect on the two lists.
CallbackWrongList(ms, nms, data, label) ==
    IF data.matches
        THEN [matches |-> ms, non_matches |-> Append(nms, data)]
        ELSE [matches |-> Append(ms, YaraMatch(data, label)), non_matches |-> nms]

YaraCallbackLists(ms, nms, data, label) ==
    IF data.matches
        THEN [matches |-> Append(ms, YaraMatch(data, label)), non_matches |-> nms]
        ELSE [matches |-> ms, non_matches |-> Append(nms, data)]

\* _yara_callback, its return value.
CallbackAbortsOnMatch(data) ==
    IF data.matches THEN CALLBACK_ABORT ELSE CALLBACK_CONTINUE

YaraCallbackReturn(data) == CALLBACK_CONTINUE

\* The body of yaralyze()'s for loop for one YaraMatch: the match is printed,
\* then each of its strings goes to BytesDecoder.print_decode_attempts().
PrintMatchEvents(ym) ==
    <<Event("match", ym.rule_name, <<>>, 0)>>
        \o [i \in 1..ym.match.strings |-> Event("decode", ym.rule_name, <<>>, i)]

\* non_matches_text of _print_non_matches.
UnsortedNonMatchesText(nms) == [i \in DOMAIN nms |-> nms[i].rule]

NonMatchesText(nms) == SortedByStr([i \in DOMAIN nms |-> nms[i].rule])

\* _print_non_matches: what it prints.
PrintNonMatchesAlways(ms, nms) ==
    IF Len(ms) = 0
        THEN <<Event("did not match any of the", <<>>, <<>>, Len(nms))>>
        ELSE <<Event("did not match the other", <<>>, <<>>, Len(nms)),
               Event("non_matches_text", <<>>, NonMatchesText(nms), Len(nms))>>

PrintNonMatchesEvents(ms, nms) ==
    IF Len(nms) = 0 THEN <<>>
    ELSE IF Len(ms) = 0
        THEN <<Event("did not match any of the", <<>>, <<>>, Len(nms))>>
        ELSE <<Event("did not match the other", <<>>, <<>>, Len(nms)),
               Event("non_matches_text", <<>>, NonMatchesText(nms), Len(nms))>>

\* The state after construction (lines 61-69): a compiled ruleset, a label and
\* two empty lists.
InitSession ==
    /\ pc = "ready"
    /\ rules \in {rs \in SUBSET RuleIds : Cardinality(rs) <= MaxRules}
    /\ bytes_label \in Labels
    /\ matches = <<>>
    /\ non_matches = <<>>
    /\ pending = {}
    /\ cb_ret = CALLBACK_CONTINUE
    /\ delivered = <<>>
    /\ idx = 0
    /\ output = <<>>

\* yaralyze() calls self.rules.match(data=self.bytes, callback=...).
Yaralyze ==
    /\ pc = "ready"
    /\ pc' = "scanning"
    /\ pending' = rules
    /\ UNCHANGED <<rules, bytes_label, matches, non_matches, cb_ret, delivered,
                   idx, output>>
    /\ UNCHANGED <<constructVars, renderVars, classifyVars>>

\* The matcher reports one rule's outcome: one invocation of _yara_callback.
\* The matcher goes on to the next rule unless the callback said otherwise.
YaraCallback ==
    /\ pc = "scanning"
    /\ \E r \in pending, m \in BOOLEAN, n \in 0..MaxStrings :
         LET data == [rule |-> r, matches |-> m, strings |-> IF m THEN n ELSE 0]
             lists == YaraCallbackLists(matches, non_matches, data, bytes_label)
             ret == YaraCallbackReturn(data)
         IN /\ (~m => n = 0)
            /\ matches' = lists.matches
            /\ non_matches' = lists.non_matches
            /\ delivered' = Append(delivered, data)
            /\ cb_ret' = ret
            /\ pending' = IF ret = CALLBACK_CONTINUE THEN pending \ {r} ELSE {}
    /\ UNCHANGED <<pc, rules, bytes_label, idx, output>>
    /\ UNCHANGED <<constructVars, renderVars, classifyVars>>

\* rules.match() returns: the for loop over self.matches starts.
MatchReturns ==
    /\ pc = "scanning"
    /\ pending = {}
    /\ pc' = "printing"
    /\ idx' = 1
    /\ UNCHANGED <<rules, bytes_label, matches, non_matches, pending, cb_ret,
                   delivered, output>>
    /\ UNCHANGED <<constructVars, renderVars, classifyVars>>

\* One iteration of the for loop over self.matches.
PrintMatch ==
    /\ pc = "printing"
    /\ idx <= Len(matches)
    /\ output' = output \o PrintMatchEvents(matches[idx])
    /\ idx' = idx + 1
    /\ UNCHANGED <<pc, rules, bytes_label, matches, non_matches, pending, cb_ret,
                   delivered>>
    /\ UNCHANGED <<constructVars, renderVars, classifyVars>>

\* The loop is over: self._print_non_matches(), and yaralyze() returns.
PrintNonMatches ==
    /\ pc = "printing"
    /\ idx > Len(matches)
    /\ output' = output \o PrintNonMatchesEvents(matches, non_matches)
    /\ pc' = "done"
    /\ UNCHANGED <<rules, bytes_label, matches, non_matches, pending, cb_ret,
                   delivered, idx>>
    /\ UNCHANGED <<constructVars, renderVars, classifyVars>>

(***************************************************************************)
(* The constructors: yaralyzer.py, lines 37-107                            *)
(***************************************************************************)
MaxFiles == 2        \* rule files, or patterns, handed to a constructor

\* bytes_label arguments: absent, empty, given.
LabelArgs == {None, "", "dump.bin"}

Result(events, err, created, label) ==
    [events |-> events, err |-> err, created |-> created, bytes_label |-> label]

\* Lines 61-69: the ruleset is used as given or compiled from its source, and
\* the session's fields are set.
CompileRules(events, rules_arg, label, compile_ok) ==
    IF rules_arg = "compiled" THEN Result(events, "none", TRUE, label)
    ELSE IF compile_ok
        THEN Result(Append(events, "yara.compile"), "none", TRUE, label)
        ELSE Result(Append(events, "yara.compile"), "SyntaxError", FALSE, None)

\* __init__ with the label checked only once the rules are compiled.
InitChecksLabelLate(events, rules_arg, scannable, label, binary_ok, compile_ok) ==
    LET r == CompileRules(events, rules_arg, IF label = None THEN "" ELSE label,
                          compile_ok)
    IN IF scannable = "bytes" /\ label = None
          THEN Result(r.events, "TypeError", FALSE, None)
          ELSE r

\* Yaralyzer.__init__, after whatever the alternate constructor did (events).
YaralyzerInit(events, rules_arg, scannable, label, binary_ok, compile_ok) ==
    IF scannable = "bytes"
        THEN IF label = None
                THEN Result(events, "TypeError", FALSE, None)
                ELSE CompileRules(events, rules_arg, label, compile_ok)
        ELSE IF binary_ok
                THEN CompileRules(Append(events, "load_binary_data"), rules_arg,
                                  IF label \in {None, ""} THEN "basename" ELSE label,
                                  compile_ok)
                ELSE Result(Append(events, "load_binary_data"), "OSError", FALSE, None)

\* newline_join(yara_rules_files, func=load_file): the files are loaded in
\* order; the bad-th load (0: none) raises.
LoadFiles(n, bad) ==
    [i \in 1..(IF bad \in 1..n THEN bad ELSE n) |-> "load_file"]

\* Yaralyzer.for_rules_files; kind is the type of yara_rules_files.
ForRulesFiles(events, kind, n, bad, scannable, label, binary_ok, compile_ok) ==
    IF kind # "list" THEN Result(events, "TypeError", FALSE, None)
    ELSE IF bad \in 1..n
        THEN Result(events \o LoadFiles(n, bad), "OSError", FALSE, None)
        ELSE YaralyzerInit(events \o LoadFiles(n, bad) \o [i \in 1..n |-> "path.basename"],
                           "source", scannable, label, binary_ok, compile_ok)

\* Yaralyzer.for_rules_dir: the .yara files of the directory, as a list.
ForRulesDir(n, bad, scannable, label, binary_ok, compile_ok) ==
    ForRulesFiles(<<"listdir">>, "list", n, bad, scannable, label, binary_ok, compile_ok)

\* Yaralyzer.for_patterns: one rule source per pattern.
ForPatterns(n, scannable, label, binary_ok, compile_ok) ==
    YaralyzerInit([i \in 1..n |-> "yara_rule_string"], "source", scannable, label,
                  binary_ok, compile_ok)

NoCall == [ctor |-> "none", rules_arg |-> "none", kind |-> "none", n |-> 0, bad |-> 0,
           scannable |-> "none", bytes_label |-> None, binary_ok |-> TRUE,
           compile_ok |-> TRUE]

NoOutcome == Result(<<>>, "none", FALSE, None)

Call(ctor, rules_arg, kind, n, bad, scannable, label, binary_ok, compile_ok) ==
    [ctor |-> ctor, rules_arg |-> rules_arg, kind |-> kind, n |-> n, bad |-> bad,
     scannable |-> scannable, bytes_label |-> label, binary_ok |-> binary_ok,
     compile_ok |-> compile_ok]

InitConstruct ==
    /\ call = NoCall
    /\ outcome = NoOutcome

Construct ==
    /\ call = NoCall
    /\ \E rules_arg \in {"compiled", "source"}, scannable \in {"bytes", "path"},
          label \in LabelArgs, binary_ok \in BOOLEAN, compile_ok \in BOOLEAN :
         /\ call' = Call("__init__", rules_arg, "none", 0, 0, scannable, label,
                         binary_ok, compile_ok)
         /\ outcome' = YaralyzerInit(<<>>, rules_arg, scannable, label, binary_ok,
                                     compile_ok)
    /\ UNCHANGED <<sessionVars, renderVars, classifyVars>>

ConstructForRulesFiles ==
    /\ call = NoCall
    /\ \E kind \in {"list", "str", "tuple"}, n \in 0..MaxFiles, bad \in 0..MaxFiles,
          scannable \in {"bytes", "path"}, label \in LabelArgs,
          binary_ok \in BOOLEAN, compile_ok \in BOOLEAN :
         /\ bad <= n
         /\ call' = Call("for_rules_files", "source", kind, n, bad, scannable, label,
                         binary_ok, compile_ok)
         /\ outcome' = ForRulesFiles(<<>>, kind, n, bad, scannable, label, binary_ok,
                                     compile_ok)
    /\ UNCHANGED <<sessionVars, renderVars, classifyVars>>

ConstructForRulesDir ==
    /\ call = NoCall
    /\ \E n \in 0..MaxFiles, bad \in 0..MaxFiles, scannable \in {"bytes", "path"},
          label \in LabelArgs, binary_ok \in BOOLEAN, compile_ok \in BOOLEAN :
         /\ bad <= n
         /\ call' = Call("for_rules_dir", "source", "list", n, bad, scannable, label,
                         binary_ok, compile_ok)
         /\ outcome' = ForRulesDir(n, bad, scannable, label, binary_ok, compile_ok)
    /\ UNCHANGED <<sessionVars, renderVars, classifyVars>>

ConstructForPatterns ==
    /\ call = NoCall
    /\ \E n \in 0..MaxFiles, scannable \in {"bytes", "path"}, label \in LabelArgs,
          binary_ok \in BOOLEAN, compile_ok \in BOOLEAN :
         /\ call' = Call("for_patterns", "source", "list", n, 0, scannable, label,
                         binary_ok, compile_ok)
         /\ outcome' = ForPatterns(n, scannable, label, binary_ok, compile_ok)
    /\ UNCHANGED <<sessionVars, renderVars, classifyVars>>

(***************************************************************************)
(* Styled text: a rich Text is modelled as the sequence of the pieces it   *)
(* was assembled from, each with the style it was given ("" for none).     *)
(***************************************************************************)
Node(c, st) == [c |-> c, st |-> st]

Text(c, st) == <<Node(c, st)>>

\* Text.plain, also str(Text).
Plain(txt) == Flatten([i \in DOMAIN txt |-> txt[i].c])

Spaces(n) == [i \in 1..n |-> " "]

(***************************************************************************)
(* The classifier: yara_match.py, lines 19-31 and 100-105                  *)
(***************************************************************************)
DigitChars == {"0", "1", "2", "3", "4", "5", "6", "7", "8", "9"}

HexChars == DigitChars \cup {"A", "B", "C", "D", "E", "F", "a", "b", "c", "d", "e", "f"}

LowerChars == {"a", "b", "c", "d", "e", "f", "g", "h", "i", "j", "k", "l", "m", "n",
               "o", "p", "q", "r", "s", "t", "u", "v", "w", "x", "y", "z"}

StartsWith(s, p) == Len(s) >= Len(p) /\ SubSeq(s, 1, Len(p)) = p

\* re.match of '^[class]+$': one or more characters of the class up to the
\* end of the string, where $ also matches before a final newline.
MatchesAllOf(s, class) ==
    \/ Len(s) >= 1 /\ \A i \in 1..Len(s) : s[i] \in class
    \/ Len(s) >= 2 /\ s[Len(s)] = "\n" /\ \A i \in 1..(Len(s) - 1) : s[i] \in class

\* '^https?:'
URL_REGEX(s) ==
    \/ StartsWith(s, <<"h", "t", "t", "p", ":">>)
    \/ StartsWith(s, <<"h", "t", "t", "p", "s", ":">>)

\* '^\d+$'
DIGITS_REGEX(s) == MatchesAllOf(s, DigitChars)

\* '^[0-9A-Fa-f]+$'
HEX_REGEX(s) == MatchesAllOf(s, HexChars)

\* '\d{4}-\d{2}-\d{2}', at the start of the string (re.match).
DATE_REGEX(s) ==
    /\ Len(s) >= 10
    /\ \A i \in {1, 2, 3, 4, 6, 7, 9, 10} : s[i] \in DigitChars
    /\ s[5] = "-"
    /\ s[8] = "-"

\* '\$[a-z_]+', at the start of the string (re.match).
MATCHER_VAR_REGEX(s) ==
    /\ Len(s) >= 2
    /\ s[1] = "$"
    /\ s[2] \in LowerChars \cup {"_"}

\* regex.match(_string) for the regex of that name.
RegexMatch(regex, s) ==
    CASE regex = "URL_REGEX" -> URL_REGEX(s)
      [] regex = "DIGITS_REGEX" -> DIGITS_REGEX(s)
      [] regex = "HEX_REGEX" -> HEX_REGEX(s)
      [] regex = "DATE_REGEX" -> DATE_REGEX(s)
      [] regex = "MATCHER_VAR_REGEX" -> MATCHER_VAR_REGEX(s)

\* The table with the hex pattern ahead of the digits pattern.
StylesHexBeforeDigits ==
    << <<"URL_REGEX", "yara.url">>,
       <<"HEX_REGEX", "yara.hex">>,
       <<"DIGITS_REGEX", "yara.number">>,
       <<"DATE_REGEX", "yara.date">>,
       <<"MATCHER_VAR_REGEX", "yara.match_var">> >>

\* The dict keeps its insertion order.
YARA_STRING_STYLES ==
    << <<"URL_REGEX", "yara.url">>,
       <<"DIGITS_REGEX", "yara.number">>,
       <<"HEX_REGEX", "yara.hex">>,
       <<"DATE_REGEX", "yara.date">>,
       <<"MATCHER_VAR_REGEX", "yara.match_var">> >>

\* The for loop of _yara_string over the table, from its i-th entry on.
RECURSIVE FirstStyle(_, _, _)
FirstStyle(styles, i, s) ==
    IF i > Len(styles) THEN "yara.string"
    ELSE IF RegexMatch(styles[i][1], s) THEN styles[i][2]
    ELSE FirstStyle(styles, i + 1, s)

\* _yara_string
YaraString(s) == Text(s, FirstStyle(YARA_STRING_STYLES, 1, s))

(***************************************************************************)
(* The renderer: yara_match.py, lines 46-97                                *)
(*                                                                         *)
(* A Python value is a record of its type t and its content: the           *)
(* characters s of a str or bytes, the number n of an int, the truth value *)
(* b of a bool, the items of a list or tuple, the <<key, value>> entries   *)
(* of a dict in insertion order.  NoneType stands for the types the        *)
(* renderer has no branch for.                                             *)
(***************************************************************************)
IndentWidth == 4
MaxInlineCount == 3

StrVal(s) == [t |-> "str", s |-> s]
BytesVal(s) == [t |-> "bytes", s |-> s]
IntVal(n) == [t |-> "int", n |-> n]
BoolVal(b) == [t |-> "bool", b |-> b]
ListVal(es) == [t |-> "list", items |-> es]
TupleVal(es) == [t |-> "tuple", items |-> es]
DictVal(kvs) == [t |-> "dict", entries |-> kvs]
NoneValue == [t |-> "NoneType"]

\* isinstance(element, cls): bool is a subclass of int, and int is a Number.
IsInstance(e, cls) ==
    CASE cls = "str" -> e.t = "str"
      [] cls = "bytes" -> e.t = "bytes"
      [] cls = "Number" -> e.t \in {"int", "bool"}
      [] cls = "bool" -> e.t = "bool"
      [] cls = "list, tuple" -> e.t \in {"list", "tuple"}
      [] cls = "dict" -> e.t = "dict"

DigitOf(d) == CASE d = 0 -> "0" [] d = 1 -> "1" [] d = 2 -> "2" [] d = 3 -> "3"
                [] d = 4 -> "4" [] d = 5 -> "5" [] d = 6 -> "6" [] d = 7 -> "7"
                [] d = 8 -> "8" [] d = 9 -> "9"

\* str() of a non-negative int.
RECURSIVE IntStr(_)
IntStr(n) == IF n < 10 THEN <<DigitOf(n)>> ELSE IntStr(n \div 10) \o <<DigitOf(n % 10)>>

\* repr() of a value; the strings of the model hold no quote or escape.
RECURSIVE PyRepr(_)
PyRepr(e) ==
    CASE e.t = "str" -> <<"'">> \o e.s \o <<"'">>
      [] e.t = "bytes" -> <<"b", "'">> \o e.s \o <<"'">>
      [] e.t = "int" -> IF e.n < 0 THEN <<"-">> \o IntStr(-e.n) ELSE IntStr(e.n)
      [] e.t = "bool" -> IF e.b THEN <<"T", "r", "u", "e">> ELSE <<"F", "a", "l", "s", "e">>
      [] e.t = "NoneType" -> <<"N", "o", "n", "e">>
      [] e.t = "list" ->
            <<"[">> \o Join(<<",", " ">>, [i \in DOMAIN e.items |-> PyRepr(e.items[i])])
                \o <<"]">>
      [] e.t = "tuple" ->
            <<"(">> \o Join(<<",", " ">>, [i \in DOMAIN e.items |-> PyRepr(e.items[i])])
                \o (IF Len(e.items) = 1 THEN <<",">> ELSE <<>>) \o <<")">>
      [] e.t = "dict" ->
            <<"{">> \o Join(<<",", " ">>,
                            [i \in DOMAIN e.entries |->
                                PyRepr(StrVal(e.entries[i][1])) \o <<":", " ">>
                                    \o PyRepr(e.entries[i][2])])
                \o <<"}">>

\* str() of a value: a str is itself, every other type gives its repr.
PyStr(e) == IF e.t = "str" THEN e.s ELSE PyRepr(e)

\* clean_byte_string (yaralyzer.helpers.bytes_helper): the printable form of
\* the bytes, without the b'' around it.
CleanByteString(b) == b

\* {k: v for k, v in element.items() if k not in ['matches', 'rule']}
RECURSIVE SelectItems(_, _)
SelectItems(kvs, dropped) ==
    IF kvs = <<>> THEN <<>>
    ELSE (IF Head(kvs)[1] \in dropped THEN <<>> ELSE <<Head(kvs)>>)
            \o SelectItems(Tail(kvs), dropped)

KeepsReservedKeys(kvs) == kvs

FilteredItems(kvs) ==
    SelectItems(kvs, {<<"m", "a", "t", "c", "h", "e", "s">>, <<"r", "u", "l", "e">>})

\* line 48: indent; line 49: end_indent.
Indent(d) == Spaces((d + 1) * IndentWidth)

EndIndent(d) == Spaces(d * IndentWidth)

\* line 63
TotalLength(es, d) ==
    SumSeq([i \in DOMAIN es |-> Len(PyStr(es[i]))]) + ((Len(es) - 1) * 2)
        + Len(Indent(d)) + 2

\* line 67: the layout is multi-line.
SplitsLines(es, d, w) == TotalLength(es, d) > w \/ Len(es) > MaxInlineCount

\* lines 65-74, from the rendered elements.
ListText(es, d, w, elements_txt) ==
    IF SplitsLines(es, d, w)
        THEN Text(<<"[">>, "white")
                \o Text(<<"\n">> \o Indent(d), "")
                \o Join(Text(<<",", "\n">> \o Indent(d), ""), elements_txt)
                \o Text(<<"\n">> \o EndIndent(d) \o <<"]">>, "white")
        ELSE Text(<<"[">>, "white")
                \o Join(Text(<<",", " ">>, ""), elements_txt)
                \o Text(<<"]">>, "")

\* lines 83-90: one entry of the mapping, the i-th of n.
DictEntry(k, vtxt, d, i, n) ==
    Text(Indent(d), "") \o Text(k \o <<":", " ">>, "yara.key") \o vtxt
        \o Text(IF i < n THEN <<",", "\n">> ELSE <<"\n">>, "")

\* The style of a bool were its branch reached ahead of the Number branch.
BoolStyle(e) == IF ~e.b THEN "red" ELSE "green"

\* _rich_yara_match(element, depth), with console_width() = w.
RECURSIVE RichYaraMatch(_, _, _)
RichYaraMatch(e, d, w) ==
    IF IsInstance(e, "str") THEN YaraString(e.s)
    ELSE IF IsInstance(e, "bytes") THEN Text(CleanByteString(e.s), "bytes")
    ELSE IF IsInstance(e, "Number") THEN Text(PyStr(e), "bright_cyan")
    ELSE IF IsInstance(e, "bool") THEN Text(PyStr(e), BoolStyle(e))
    ELSE IF IsInstance(e, "list, tuple") THEN
        IF Len(e.items) = 0 THEN Text(<<"[", "]">>, "white")
        ELSE ListText(e.items, d, w,
                      [i \in DOMAIN e.items |-> RichYaraMatch(e.items[i], d + 1, w)])
    ELSE IF IsInstance(e, "dict") THEN
        LET items == FilteredItems(e.entries)
        IN IF Len(items) = 0 THEN Text(<<"{", "}">>, "")
           ELSE Text(<<"{", "\n">>, "white")
                   \o Flatten([i \in DOMAIN items |->
                          DictEntry(items[i][1], RichYaraMatch(items[i][2], d + 1, w),
                                    d, i, Len(items))])
                   \o Text(EndIndent(d), "") \o Text(<<"}">>, "white")
    ELSE Text(Indent(d), "") \o Text(PyStr(e), "")

(***************************************************************************)
(* The values and strings the renderer and the classifier are run on.      *)
(***************************************************************************)
MaxSeqLen == 4       \* items of a generated list
MaxKeys == 2         \* entries of a generated dict
MaxSuffixLen == 2    \* characters after the prefix of a generated string

SeqsUpTo(S, n) == UNION {[1..k -> S] : k \in 0..n}

DistinctKeys(kvs) == \A i, j \in DOMAIN kvs : kvs[i][1] = kvs[j][1] => i = j

rule_ == <<"r", "u", "l", "e">>
matches_ == <<"m", "a", "t", "c", "h", "e", "s">>

Keys == {rule_, matches_, <<"a">>, <<"t", "a", "g", "s">>}

Scalars ==
    {StrVal(<<"a">>), StrVal(<<"$", "a">>), StrVal(<<>>), BytesVal(<<"x", "y">>),
     IntVal(7), IntVal(1234), IntVal(-5), BoolVal(TRUE), BoolVal(FALSE), NoneValue}

ShortScalars == {StrVal(<<"a">>), IntVal(1234), BoolVal(TRUE)}

DictsOver(V, n) ==
    {DictVal(kvs) : kvs \in {x \in SeqsUpTo(Keys \X V, n) : DistinctKeys(x)}}

FlatValues ==
    {ListVal(es) : es \in SeqsUpTo(ShortScalars, MaxSeqLen)}
        \cup {TupleVal(es) : es \in SeqsUpTo({StrVal(<<"a">>), NoneValue}, 2)}
        \cup DictsOver(ShortScalars, MaxKeys)

\* What the nested values are built from: flat values of at most two items.
Inner ==
    {x \in FlatValues : IF x.t = "dict" THEN Len(x.entries) <= 1 ELSE Len(x.items) <= 2}
        \cup {StrVal(<<"a">>), IntVal(7)}

NestedValues ==
    {ListVal(es) : es \in SeqsUpTo(Inner, 2)} \cup DictsOver(Inner, 1)

\* An outcome as yara hands it to the callback, and values nested three deep.
Samples ==
    {DictVal(<< <<<<"t", "a", "g", "s">>, ListVal(<<>>)>>,
               <<<<"m", "e", "t", "a">>, DictVal(<<>>)>>,
               <<<<"s", "t", "r", "i", "n", "g", "s">>,
                 ListVal(<<TupleVal(<<IntVal(81), StrVal(<<"$", "a">>),
                                      BytesVal(<<"x", "y">>)>>)>>)>>,
               <<rule_, StrVal(<<"R">>)>>,
               <<matches_, BoolVal(TRUE)>> >>),
     DictVal(<< <<rule_, StrVal(<<"R">>)>>,
               <<matches_, BoolVal(TRUE)>>,
               <<<<"a">>, IntVal(1)>>,
               <<<<"b">>, ListVal(<<IntVal(1), IntVal(2), IntVal(3), IntVal(4),
                                    IntVal(5)>>)>> >>),
     DictVal(<< <<<<"a">>,
                 ListVal(<<DictVal(<< <<rule_, StrVal(<<"R">>)>>,
                                     <<<<"b">>, DictVal(<< <<matches_, BoolVal(TRUE)>> >>)>>
                                  >>)>>)>> >>),
     ListVal(<<ListVal(<<ListVal(<<DictVal(<< <<rule_, StrVal(<<"R">>)>> >>),
                                   StrVal(<<"a">>)>>)>>)>>)}

Values == Scalars \cup FlatValues \cup NestedValues \cup Samples

\* What console_width() may return.
Widths == {14, 40, 120}

Alphabet == {"1", "a", "g", "F", ":", "-", "$", "_", " ", "\n"}

Prefixes ==
    {<<>>,
     <<"h", "t", "t", "p", ":">>,
     <<"h", "t", "t", "p", "s", ":">>,
     <<"h", "t", "t", "p">>,
     <<"h", "t", "t", "p", ":", "/", "/", "x">>,
     <<"1", "9", "2">>,
     <<"f", "f">>,
     <<"2", "0", "2", "4", "-", "0", "1", "-", "0", "1">>,
     <<"2", "0", "2", "4", "-", "0", "1", "-", "0">>,
     <<"2", "0", "2", "4", "0", "1">>,
     <<"$", "a", "b", "c">>,
     <<"$">>,
     <<"h", "e", "l", "l", "o", " ", "w", "o", "r", "l", "d">>}

Strings == {p \o x : p \in Prefixes, x \in SeqsUpTo(Alphabet, MaxSuffixLen)}

(***************************************************************************)
(* The specifications.                                                     *)
(***************************************************************************)
NotRendered == <<>>

IdleSession ==
    /\ pc = "idle"
    /\ rules = {}
    /\ bytes_label = None
    /\ matches = <<>>
    /\ non_matches = <<>>
    /\ pending = {}
    /\ cb_ret = CALLBACK_CONTINUE
    /\ delivered = <<>>
    /\ idx = 0
    /\ output = <<>>

IdleConstruct ==
    /\ call = NoCall
    /\ outcome = NoOutcome

IdleRender ==
    /\ element = NoneValue
    /\ depth = 0
    /\ width = 0
    /\ rendered = NotRendered

IdleClassify ==
    /\ string_ = <<>>
    /\ styled = NotRendered

Init == InitSession /\ IdleConstruct /\ IdleRender /\ IdleClassify

Next ==
    \/ Yaralyze
    \/ YaraCallback
    \/ MatchReturns
    \/ PrintMatch
    \/ PrintNonMatches

Spec == Init /\ [][Next]_vars

ConstructInit == IdleSession /\ InitConstruct /\ IdleRender /\ IdleClassify

ConstructNext ==
    \/ Construct
    \/ ConstructForRulesFiles
    \/ ConstructForRulesDir
    \/ ConstructForPatterns

SpecConstruct == ConstructInit /\ [][ConstructNext]_vars

RenderInit ==
    /\ IdleSession
    /\ IdleConstruct
    /\ IdleClassify
    /\ element \in Values
    /\ depth \in {0, 1}
    /\ width \in Widths
    /\ rendered = NotRendered

\* One call of _rich_yara_match.
Render ==
    /\ rendered = NotRendered
    /\ rendered' = RichYaraMatch(element, depth, width)
    /\ UNCHANGED <<element, depth, width, sessionVars, constructVars, classifyVars>>

RenderNext == Render

SpecRender == RenderInit /\ [][RenderNext]_vars

ClassifyInit ==
    /\ IdleSession
    /\ IdleConstruct
    /\ IdleRender
    /\ string_ \in Strings
    /\ styled = NotRendered

\* One call of _yara_string.
Classify ==
    /\ styled = NotRendered
    /\ styled' = YaraString(string_)
    /\ UNCHANGED <<string_, sessionVars, constructVars, renderVars>>

ClassifyNext == Classify

SpecClassify == ClassifyInit /\ [][ClassifyNext]_vars

(***************************************************************************)
(* Properties of the session.                                              *)
(***************************************************************************)
\* The outcomes of a history that carry hits (hit = TRUE) or none (FALSE).
RECURSIVE Outcomes(_, _)
Outcomes(hist, hit) ==
    IF hist = <<>> THEN <<>>
    ELSE (IF Head(hist).matches = hit THEN <<Head(hist)>> ELSE <<>>)
            \o Outcomes(Tail(hist), hit)

RuleNames(ds) == [i \in DOMAIN ds |-> ds[i].rule]

IsPrefix(s, t) == Len(s) <= Len(t) /\ SubSeq(t, 1, Len(s)) = s

SummaryKinds == {"did not match any of the", "did not match the other", "non_matches_text"}

\* The positions of output that hold an event of one of the kinds.
Positions(kinds) == {i \in DOMAIN output : output[i].kind \in kinds}

RECURSIVE EventsOfKind(_, _)
EventsOfKind(out, kind) ==
    IF out = <<>> THEN <<>>
    ELSE (IF Head(out).kind = kind THEN <<Head(out)>> ELSE <<>>)
            \o EventsOfKind(Tail(out), kind)

Arrangements(s) ==
    {[i \in DOMAIN s |-> s[p[i]]] :
        p \in {q \in [DOMAIN s -> DOMAIN s] : \A i, j \in DOMAIN s : q[i] = q[j] => i = j}}

\* C1: after N invocations of _yara_callback of which M carry hits, matches
\* holds exactly the M outcomes with hits and non_matches exactly the N - M
\* without, each in arrival order, and no step ever removes a record from
\* either list.
C1_Partition ==
    /\ [](/\ Len(matches) = Len(Outcomes(delivered, TRUE))
          /\ Len(non_matches) = Len(delivered) - Len(Outcomes(delivered, TRUE))
          /\ [i \in DOMAIN matches |-> matches[i].match] = Outcomes(delivered, TRUE)
          /\ non_matches = Outcomes(delivered, FALSE))
    /\ [][IsPrefix(matches, matches') /\ IsPrefix(non_matches, non_matches')]_vars

C1_Witness ==
    /\ pc = "done"
    /\ Len(delivered) = 3
    /\ Len(matches) = 2
    /\ Len(non_matches) = 1

C8_SummaryShown ==
    /\ pc # "done" => Positions(SummaryKinds) = {}
    /\ pc = "done" =>
          /\ (Positions(SummaryKinds) # {}) <=> (Len(non_matches) # 0)
          /\ Len(non_matches) # 0 =>
                /\ Len(EventsOfKind(output, "did not match any of the"))
                      = (IF Len(matches) = 0 THEN 1 ELSE 0)
                /\ Len(EventsOfKind(output, "did not match the other"))
                      = (IF Len(matches) = 0 THEN 0 ELSE 1)

C8_Witness ==
    /\ pc = "done"
    /\ Len(matches) = 0
    /\ Len(non_matches) >= 2
    /\ Positions({"did not match any of the"}) # {}

\* C9: nothing is displayed before rules.match() has returned; then the
\* matched records are displayed once each in the order the callback got them,
\* each followed by the hand-over of its strings to the decoder before the
\* next one is displayed; the unmatched summary comes after all of them; the
\* callback always returns CALLBACK_CONTINUE, so every rule of the ruleset has
\* been reported when the display starts.
C9_DisplayOrder ==
    LET hits == Outcomes(delivered, TRUE)
        shown == EventsOfKind(output, "match")
        matchAt == Positions({"match"})
    IN /\ pc \in {"ready", "scanning"} => output = <<>>
       /\ IsPrefix(RuleNames(shown), RuleNames(hits))
       /\ pc = "done" => RuleNames(shown) = RuleNames(hits)
       /\ \A p \in matchAt :
             LET h == hits[Cardinality({q \in matchAt : q <= p})]
             IN /\ output[p].rule = h.rule
                /\ p + h.strings <= Len(output)
                /\ \A t \in 1..h.strings :
                      /\ output[p + t].kind = "decode"
                      /\ output[p + t].rule = h.rule
                /\ p + h.strings + 1 <= Len(output) =>
                      output[p + h.strings + 1].kind # "decode"
       /\ \A p \in DOMAIN output : output[p].kind = "decode" => p > 1
       /\ \A p \in Positions(SummaryKinds), q \in DOMAIN output :
             q > p => output[q].kind \in SummaryKinds
       /\ Positions(SummaryKinds) # {} => pc = "done"
       /\ cb_ret = CALLBACK_CONTINUE
       /\ pc \in {"printing", "done"} => Range(RuleNames(delivered)) = rules

C9_Witness ==
    /\ pc = "done"
    /\ Len(matches) = 2
    /\ \A i \in DOMAIN matches : matches[i].match.strings >= 1
    /\ Len(non_matches) = 1
    /\ Len(output) >= 6

(***************************************************************************)
(* Properties of the constructors.                                         *)
(***************************************************************************)
\* C7: __init__ on raw bytes without bytes_label, and for_rules_files on a
\* value that is not a list, raise TypeError before any file is loaded or any
\* rule source compiled, and no session results.
C7_InvalidArgument ==
    LET rejected ==
            \/ call.ctor = "__init__" /\ call.scannable = "bytes" /\ call.bytes_label = None
            \/ call.ctor = "for_rules_files" /\ call.kind # "list"
    IN rejected =>
          /\ outcome.err = "TypeError"
          /\ outcome.events = <<>>
          /\ ~outcome.created

C7_Witness ==
    /\ call.ctor = "__init__"
    /\ call.scannable = "bytes"
    /\ call.bytes_label = None
    /\ call.rules_arg = "source"
    /\ call.compile_ok
    /\ outcome.err = "TypeError"

(***************************************************************************)
(* Properties of the classifier.                                           *)
(***************************************************************************)
AllDigits(s) == Len(s) >= 1 /\ \A i \in DOMAIN s : s[i] \in DigitChars

\* C3: _yara_string returns the string with the style of the first of the
\* patterns url, digits, hex, date, matcher variable that matches it at its
\* start, and yara.string when none does; an all-digit string is yara.number,
\* never yara.hex.
C3_FirstMatchWins ==
    styled # NotRendered =>
        LET s == string_
            tag == styled[1].st
        IN /\ Len(styled) = 1
           /\ styled[1].c = s
           /\ tag = (CASE URL_REGEX(s) -> "yara.url"
                       [] ~URL_REGEX(s) /\ DIGITS_REGEX(s) -> "yara.number"
                       [] ~URL_REGEX(s) /\ ~DIGITS_REGEX(s) /\ HEX_REGEX(s) -> "yara.hex"
                       [] ~URL_REGEX(s) /\ ~DIGITS_REGEX(s) /\ ~HEX_REGEX(s)
                            /\ DATE_REGEX(s) -> "yara.date"
                       [] ~URL_REGEX(s) /\ ~DIGITS_REGEX(s) /\ ~HEX_REGEX(s)
                            /\ ~DATE_REGEX(s) /\ MATCHER_VAR_REGEX(s) -> "yara.match_var"
                       [] OTHER -> "yara.string")
           /\ AllDigits(s) => tag = "yara.number"
           /\ s = <<"1", "9", "2">> => tag = "yara.number"
           /\ s = <<"h", "t", "t", "p", ":", "/", "/", "x">> => tag = "yara.url"
           /\ s = <<"2", "0", "2", "4", "-", "0", "1", "-", "0", "1">> => tag = "yara.date"
           /\ s = <<"$", "a", "b", "c">> => tag = "yara.match_var"
           /\ s = <<"h", "e", "l", "l", "o", " ", "w", "o", "r", "l", "d">>
                 => tag = "yara.string"

C3_Witness ==
    /\ styled # NotRendered
    /\ string_ = <<"1", "9", "2", "1">>
    /\ HEX_REGEX(string_)
    /\ styled[1].st = "yara.number"

(***************************************************************************)
(* Properties of the renderer.                                             *)
(***************************************************************************)
IsSequence(e) == e.t \in {"list", "tuple"}

\* The plain text of each item of a sequence as rendered one level deeper.
ItemTexts(es, d, w) == [i \in DOMAIN es |-> Plain(RichYaraMatch(es[i], d + 1, w))]

\* One item per line at depth + 1, a comma after all but the last, the closing
\* bracket on a line of its own at depth.
MultiLine(items, d) ==
    <<"[">>
        \o Flatten([i \in DOMAIN items |->
               <<"\n">> \o Spaces((d + 1) * IndentWidth) \o items[i]
                   \o (IF i < Len(items) THEN <<",">> ELSE <<>>)])
        \o <<"\n">> \o Spaces(d * IndentWidth) \o <<"]">>

Inline(items) == <<"[">> \o Join(<<",", " ">>, items) \o <<"]">>

\* The width of the inline candidate as the rendered items give it.
RenderedWidth(items, d) ==
    SumSeq([i \in DOMAIN items |-> Len(items[i])]) + 2 * (Len(items) - 1)
        + Len(Indent(d)) + 2

Contains(s, sub) == \E i \in 1..(Len(s) - Len(sub) + 1) : SubSeq(s, i, i + Len(sub) - 1) = sub

\* C4: a bool renders as its str() with one style for True and another for
\* False, neither of them the style of a Number.
C4_BooleanStyles ==
    (rendered # NotRendered /\ element.t = "bool") =>
        /\ Plain(rendered) = PyStr(element)
        /\ rendered[1].st # RichYaraMatch(BoolVal(~element.b), depth, width)[1].st
        /\ rendered[1].st # RichYaraMatch(IntVal(0), depth, width)[1].st

\* C5: the rendering holds no entry for the keys rule and matches of any dict
\* of the value, however deep; a dict with no other key renders as {}.
C5_ReservedKeysHidden ==
    rendered # NotRendered =>
        /\ \A i \in DOMAIN rendered :
              rendered[i].st = "yara.key" =>
                  rendered[i].c \notin {rule_ \o <<":", " ">>, matches_ \o <<":", " ">>}
        /\ ~Contains(Plain(rendered), rule_ \o <<":">>)
        /\ ~Contains(Plain(rendered), matches_ \o <<":">>)
        /\ (element.t = "dict" /\ \A i \in DOMAIN element.entries : element.entries[i][1] \in {rule_, matches_})
              => rendered = Text(<<"{", "}">>, "")

C5_Witness ==
    /\ rendered # NotRendered
    /\ element.t = "dict"
    /\ \E i \in DOMAIN element.entries :
          /\ IsSequence(element.entries[i][2])
          /\ \E j \in DOMAIN element.entries[i][2].items :
                LET inner == element.entries[i][2].items[j]
                IN /\ inner.t = "dict"
                   /\ \E k \in DOMAIN inner.entries : inner.entries[k][1] = rule_
                   /\ \E k \in DOMAIN inner.entries :
                         inner.entries[k][1] \notin {rule_, matches_}

\* C6: a sequence of more than 3 items is rendered multi-line whatever the
\* display width, and a non-empty one of at most 3 items whose inline width
\* (the rendered items, their separators, the indent and the brackets) does
\* not exceed the display width is rendered inline.
C6_LayoutThreshold ==
    (rendered # NotRendered /\ IsSequence(element) /\ Len(element.items) > 0) =>
        LET items == ItemTexts(element.items, depth, width)
        IN /\ Len(element.items) > 3 => Plain(rendered) = MultiLine(items, depth)
           /\ (Len(element.items) <= 3 /\ RenderedWidth(items, depth) <= width)
                 => Plain(rendered) = Inline(items)

\* What holds of C6: the count threshold is absolute, and a sequence of at
\* most 3 items is inline when the width line 63 computes does not exceed the
\* display width, which for items that are str or int is the width of C6.
CountThresholdAbsolute ==
    (rendered # NotRendered /\ IsSequence(element) /\ Len(element.items) > 0) =>
        LET items == ItemTexts(element.items, depth, width)
        IN /\ Len(element.items) > 3 => Plain(rendered) = MultiLine(items, depth)
           /\ (Len(element.items) <= 3 /\ TotalLength(element.items, depth) <= width)
                 => Plain(rendered) = Inline(items)
           /\ (/\ Len(element.items) <= 3
               /\ \A i \in DOMAIN element.items : element.items[i].t \in {"str", "int"}
               /\ RenderedWidth(items, depth) <= width)
                 => Plain(rendered) = Inline(items)

\* C10: for a non-empty sequence the width compared with the display width is
\* the sum of the lengths of the rendered items, plus 2 per separator, plus the
\* indent, plus 2; the sequence is multi-line when it exceeds the display width.
C10_InlineWidth ==
    (rendered # NotRendered /\ IsSequence(element) /\ Len(element.items) > 0) =>
        LET items == ItemTexts(element.items, depth, width)
        IN /\ TotalLength(element.items, depth) = RenderedWidth(items, depth)
           /\ RenderedWidth(items, depth) > width
                 => Plain(rendered) = MultiLine(items, depth)
           /\ (RenderedWidth(items, depth) <= width /\ Len(element.items) <= 3)
                 => Plain(rendered) = Inline(items)

=============================================================================
